---------------------------- MODULE Spec2Model ----------------------------
(***************************************************************************)
(* Model of the scene controller `World` and of the `App` / `Options`      *)
(* components that drive it (src/unnamed/part_000).                        *)
(*                                                                         *)
(* The three.js scene graph, the raycaster, the loaders and the browser's  *)
(* animation-frame queue are external; they are modelled by what the code  *)
(* relies on: object identity of materials, pre-order traversal, a list of *)
(* intersections sorted by distance, promises that resolve or reject at    *)
(* any later turn of the event loop, and frame ids that can be cancelled.  *)
(***************************************************************************)
EXTENDS Integers, Sequences, FiniteSets, TLC

VARIABLES
  lifecycle,      \* App useEffect: "constructed" | "running" | "disposed"
  modelLoad,      \* gltfLoader.loadAsync promise: "pending" | "resolved" | "rejected"
  chair,          \* World.chair: NULL or the loaded scene root
  sceneChildren,  \* objects added to World.scene
  shadowed,       \* objects with receiveShadow = true
  mouse,          \* World.mouse, in units of 1/clientWidth and 1/clientHeight
  target,         \* World.target
  tempMaterial,   \* World.tempMaterial
  material,       \* the .material field of every mesh of the asset
  loads,          \* number of texLoader.loadAsync calls so far
  texPending,     \* the texture loads whose promise is not settled
  timer,          \* World.timer
  scheduled,      \* animation-frame ids requested and neither run nor cancelled
  frames,         \* number of requestAnimationFrame calls so far
  unhandled,      \* the texture loads whose rejection no handler caught
  last            \* observer: what the last click or applied texture did

vars == <<lifecycle, modelLoad, chair, sceneChildren, shadowed, mouse,
          target, tempMaterial, material, loads, texPending, timer,
          scheduled, frames, unhandled, last>>

-----------------------------------------------------------------------------
(* Bounds of the exploration *)

\* Size of the render surface's element, in pixels.
ClientWidth == 1
ClientHeight == 1
\* Calls of updateTexture in one behaviour.
MaxLoads == 1
\* Calls of requestAnimationFrame in one behaviour.
MaxFrames == 2
\* The thumbnails that get clicked are among the first MaxThumbs.
MaxThumbs == 2

-----------------------------------------------------------------------------
(* The static data of the program *)

NULL == "null"

resources == <<"img/denim_.jpg", "img/fabric_.jpg", "img/pattern_.jpg",
               "img/quilt_.jpg", "img/wood_.jpg">>

\* Materials are compared by identity: (kind, map, tex, id) names one object.
\* `map` is the url of the texture (none: ""); `tex` is the load that made the
\* Texture object (none: 0); `id` tells apart materials made in one callback.
NullMaterial == [kind |-> "null", map |-> "", tex |-> 0, id |-> 0]
selectedMaterial == [kind |-> "selected", map |-> "", tex |-> 0, id |-> 0]
GltfMaterial(i) == [kind |-> "gltf", map |-> "", tex |-> 0, id |-> i]
MeshPhongMaterial(t, i) ==
  [kind |-> "phong", map |-> t.url, tex |-> t.id, id |-> i]

\* The asset chair.glb: three immediate children, one of which has a subtree.
GltfScene == "chair.glb"
Children(o) ==
  CASE o = GltfScene -> <<"seat", "back", "legs">>
    [] o = "seat"    -> <<"piping">>
    [] o = "piping"  -> <<"cushion">>
    [] OTHER         -> <<>>
Meshes == {"seat", "back", "legs", "cushion"}
IsMesh(o) == o \in Meshes

\* The materials the asset comes with: one shared by the seat and its
\* cushion, another shared by the back and the legs.
GltfMaterials ==
  [o \in Meshes |-> IF o \in {"seat", "cushion"} THEN GltfMaterial(1)
                                                 ELSE GltfMaterial(2)]

RECURSIVE TraverseAll(_)
\* Object3D.traverse: the object itself, then each child's subtree, in order.
Traverse(o) == <<o>> \o TraverseAll(Children(o))
TraverseAll(os) ==
  IF os = <<>> THEN <<>> ELSE Traverse(Head(os)) \o TraverseAll(Tail(os))

Range(s) == {s[i] : i \in DOMAIN s}

-----------------------------------------------------------------------------
(* The raycaster *)

\* Whether the ray from the camera through pointer position m (scaled device
\* coordinates) meets object o.  Only meshes are hit.  The camera is taken
\* where initCamera puts it: the orbit control's moves are not modelled.
Hit(o, m) ==
  /\ IsMesh(o)
  /\ CASE o = "seat" -> m[1] <= 0 /\ m[2] <= 0
       [] o = "back" -> m[1] >= 0
       [] o = "legs" -> m[1] >= 0 /\ m[2] <= 0
       [] OTHER      -> FALSE

\* Distance from the camera to the hit point on o.
Distance(o) ==
  CASE o = "seat" -> 2
    [] o = "legs" -> 3
    [] OTHER      -> 4

\* Raycaster.intersectObjects(objects): the objects of the list that the ray
\* meets (their subtrees are not searched), nearest first.
IntersectObjects(objects, m) ==
  LET hit == {o \in Range(objects) : Hit(o, m)}
  IN  CHOOSE s \in [1..Cardinality(hit) -> hit] :
        /\ Range(s) = hit
        /\ \A i, j \in DOMAIN s : i < j => Distance(s[i]) < Distance(s[j])

-----------------------------------------------------------------------------
(* World *)

\* The observer `last`: phase says what the last click or applied texture
\* did (it starts afresh when the model load settles), part and prev are the
\* selection after and before it, m is the material the part had before, and
\* before holds all materials before a deselecting click.
Nothing == [phase |-> "none", part |-> NULL, prev |-> NULL,
            m |-> NullMaterial, before |-> [o \in Meshes |-> NullMaterial]]

\* The state after `new World(container)`: loadModel('chair.glb') is in flight.
Init ==
  /\ lifecycle = "constructed"
  /\ modelLoad = "pending"
  /\ chair = NULL
  /\ sceneChildren = {"hemiLight", "directionLight", "plane"}
  /\ shadowed = {"plane"}
  /\ mouse = <<0, 0>>
  /\ target = NULL
  /\ tempMaterial = NullMaterial
  /\ material = GltfMaterials
  /\ loads = 0
  /\ texPending = {}
  /\ timer = 0
  /\ scheduled = {}
  /\ frames = 0
  /\ unhandled = {}
  /\ last = Nothing

\* loadModel's then-callback.
ModelResolved ==
  /\ lifecycle # "constructed"
  /\ modelLoad = "pending"
  /\ modelLoad' = "resolved"
  /\ shadowed' = shadowed \cup Range(Traverse(GltfScene))
  /\ chair' = GltfScene
  /\ sceneChildren' = sceneChildren \cup {GltfScene}
  /\ last' = Nothing
  /\ UNCHANGED <<lifecycle, mouse, target, tempMaterial, material,
                 loads, texPending, timer, scheduled, frames, unhandled>>

\* loadModel's catch-callback: console.log(error).
ModelRejected ==
  /\ lifecycle # "constructed"
  /\ modelLoad = "pending"
  /\ modelLoad' = "rejected"
  /\ last' = Nothing
  /\ UNCHANGED <<lifecycle, chair, sceneChildren, shadowed, mouse,
                 target, tempMaterial, material, loads, texPending, timer,
                 scheduled, frames, unhandled>>

\* World.draw with `requestAnimationFrame(this.draw)` not assigned to timer.
Draw_TimerNotStored(queue) ==
  /\ frames' = frames + 1
  /\ timer' = timer
  /\ scheduled' = queue \cup {frames + 1}

\* World.draw, entered with `queue` as the pending animation frames:
\* control.update(), render, this.timer = requestAnimationFrame(this.draw).
Draw(queue) ==
  /\ frames' = frames + 1
  /\ timer' = frames + 1
  /\ scheduled' = queue \cup {frames + 1}

\* App useEffect: refWorld.current.draw() right after construction.
AppDraw ==
  /\ lifecycle = "constructed"
  /\ lifecycle' = "running"
  /\ Draw(scheduled)
  /\ UNCHANGED <<modelLoad, chair, sceneChildren, shadowed, mouse, target,
                 tempMaterial, material, loads, texPending, unhandled, last>>

\* The browser runs a requested animation frame: its id leaves the queue and
\* the callback, World.draw, runs.
Frame ==
  /\ frames < MaxFrames
  /\ \E id \in scheduled : Draw(scheduled \ {id})
  /\ UNCHANGED <<lifecycle, modelLoad, chair, sceneChildren, shadowed, mouse,
                 target, tempMaterial, material, loads, texPending, unhandled,
                 last>>

\* World.dispose: cancelAnimationFrame(this.timer).
Dispose ==
  /\ lifecycle = "running"
  /\ lifecycle' = "disposed"
  /\ scheduled' = scheduled \ {timer}
  /\ UNCHANGED <<modelLoad, chair, sceneChildren, shadowed, mouse,
                 target, tempMaterial, material, loads, texPending, timer,
                 frames, unhandled, last>>

\* World.mousemove.  The device coordinate (clientX / clientWidth) * 2 - 1 is
\* kept as its numerator 2 * clientX - clientWidth, and likewise for y.
MouseMove(clientX, clientY) ==
  /\ lifecycle = "running"
  /\ mouse' = <<2 * clientX - ClientWidth, ClientHeight - 2 * clientY>>
  /\ UNCHANGED <<lifecycle, modelLoad, chair, sceneChildren, shadowed,
                 target, tempMaterial, material, loads, texPending, timer,
                 scheduled, frames, unhandled, last>>

\* restoreMaterial that restores nothing.
RestoreMaterial_Skip(mat, tgt, tmp) == mat

\* restoreMaterial that assigns the saved material to every mesh.
RestoreMaterial_All(mat, tgt, tmp) ==
  IF tgt # NULL /\ tmp # NullMaterial THEN [o \in Meshes |-> tmp] ELSE mat

\* restoreMaterial that runs only while the highlight is still shown.
RestoreMaterial_IfHighlighted(mat, tgt, tmp) ==
  IF tgt # NULL /\ tmp # NullMaterial /\ mat[tgt] = selectedMaterial
  THEN [mat EXCEPT ![tgt] = tmp]
  ELSE mat

\* World.restoreMaterial: the materials after it ran.
RestoreMaterial(mat, tgt, tmp) ==
  IF tgt # NULL /\ tmp # NullMaterial THEN [mat EXCEPT ![tgt] = tmp] ELSE mat

\* click without its guard.
NoModel_Never(c) == FALSE

\* World.click's guard `!this.chair`.
NoModel(c) == c = NULL

\* World.click.
Click ==
  /\ lifecycle = "running"
  /\ IF NoModel(chair)
     THEN /\ last' = [Nothing EXCEPT !.phase = "noop"]
          /\ UNCHANGED <<target, tempMaterial, material>>
     ELSE IF chair = NULL
     THEN \* this.chair.children throws a TypeError
          /\ last' = [Nothing EXCEPT !.phase = "TypeError"]
          /\ UNCHANGED <<target, tempMaterial, material>>
     ELSE LET intersection == IntersectObjects(Children(chair), mouse)
              restored == RestoreMaterial(material, target, tempMaterial)
          IN  IF Len(intersection) = 0
              THEN /\ material' = restored
                   /\ target' = NULL
                   /\ last' = IF last.phase = "selected"
                              THEN [last EXCEPT !.phase = "deselected",
                                                !.before = material]
                              ELSE [Nothing EXCEPT !.phase = "missed"]
                   /\ UNCHANGED tempMaterial
              ELSE /\ target' = intersection[1]
                   /\ tempMaterial' = restored[intersection[1]]
                   /\ material' =
                        [restored EXCEPT ![intersection[1]] = selectedMaterial]
                   /\ last' = [Nothing EXCEPT !.phase = "selected",
                                              !.part = intersection[1],
                                              !.prev = target,
                                              !.m = material[intersection[1]]]
  /\ UNCHANGED <<lifecycle, modelLoad, chair, sceneChildren, shadowed,
                 mouse, loads, texPending, timer, scheduled, frames, unhandled>>

\* Options.click -> World.updateTexture: texLoader.loadAsync(url) is started.
\* `at` observes the selection at the time of the call.
UpdateTexture(url) ==
  /\ lifecycle = "running"
  /\ loads < MaxLoads
  /\ loads' = loads + 1
  /\ texPending' =
       texPending \cup {[id |-> loads + 1, url |-> url, at |-> target]}
  /\ UNCHANGED <<lifecycle, modelLoad, chair, sceneChildren, shadowed,
                 mouse, target, tempMaterial, material, timer, scheduled,
                 frames, unhandled, last>>

\* The meshes the then-callback of updateTexture visits, in traversal order.
TargetMeshes(tgt) ==
  IF tgt = NULL THEN <<>> ELSE SelectSeq(Traverse(tgt), IsMesh)

\* The then-callback leaving tempMaterial as it was.
TexturedTemp_Keep(t, tgt, tmp) == tmp

\* tempMaterial after the then-callback ran for load t: the first mesh
\* visited makes it a new material, the first one created with that map.
TexturedTemp(t, tgt, tmp) ==
  IF TargetMeshes(tgt) = <<>> THEN tmp ELSE MeshPhongMaterial(t, 1)

\* The then-callback giving a material to the target alone, without traverse.
TexturedMaterials_TargetOnly(t, tgt, mat) ==
  IF tgt = NULL THEN mat ELSE [mat EXCEPT ![tgt] = MeshPhongMaterial(t, 2)]

\* The materials after the then-callback ran for load t: every mesh visited
\* gets a new material of its own.
TexturedMaterials(t, tgt, mat) ==
  LET ms == TargetMeshes(tgt)
  IN  [o \in Meshes |->
         IF \E k \in DOMAIN ms : ms[k] = o
         THEN MeshPhongMaterial(t, 1 + CHOOSE k \in DOMAIN ms : ms[k] = o)
         ELSE mat[o]]

\* updateTexture's then-callback for load t (wrapS = wrapT = RepeatWrapping
\* is set on the texture that all its materials map).
TextureResolved(t) ==
  /\ t \in texPending
  /\ texPending' = texPending \ {t}
  /\ tempMaterial' = TexturedTemp(t, target, tempMaterial)
  /\ material' = TexturedMaterials(t, target, material)
  /\ last' = [Nothing EXCEPT !.phase = "textured", !.part = target,
                             !.prev = t.at]
  /\ UNCHANGED <<lifecycle, modelLoad, chair, sceneChildren, shadowed,
                 mouse, target, loads, timer, scheduled, frames, unhandled>>

\* A rejection handler that drops the saved material.
OnTextureError_Clear(tgt, tmp, mat) == <<tgt, NullMaterial, mat>>

\* What a rejected texture load does to (target, tempMaterial, material):
\* the promise has no catch, so no callback of World runs.
OnTextureError(tgt, tmp, mat) == <<tgt, tmp, mat>>

\* The promise of load t rejects.
TextureRejected(t) ==
  /\ t \in texPending
  /\ texPending' = texPending \ {t}
  /\ unhandled' = unhandled \cup {t.id}
  /\ LET after == OnTextureError(target, tempMaterial, material)
     IN  /\ target' = after[1]
         /\ tempMaterial' = after[2]
         /\ material' = after[3]
  /\ UNCHANGED <<lifecycle, modelLoad, chair, sceneChildren, shadowed,
                 mouse, loads, timer, scheduled, frames, last>>

Next ==
  \/ AppDraw
  \/ Frame
  \/ Dispose
  \/ ModelResolved
  \/ ModelRejected
  \/ \E x \in 0..ClientWidth, y \in 0..ClientHeight : MouseMove(x, y)
  \/ Click
  \/ \E i \in DOMAIN resources : i <= MaxThumbs /\ UpdateTexture(resources[i])
  \/ \E t \in texPending : TextureResolved(t)
  \/ \E t \in texPending : TextureRejected(t)

Spec == Init /\ [][Next]_vars

-----------------------------------------------------------------------------
(* Properties *)

Highlighted == {o \in Meshes : material[o] = selectedMaterial}

\* The immediate child of the model that a click at the current pointer
\* position picks, NULL when there is none.
ClickedPart ==
  IF chair = NULL THEN NULL
  ELSE LET i == IntersectObjects(Children(chair), mouse)
       IN  IF Len(i) = 0 THEN NULL ELSE i[1]

Subtree(o) == Range(Traverse(o)) \cap Meshes

\* C1: at most one part has the highlight material as its active material,
\* whatever clicks, pointer moves and texture loads came before; right after
\* a click that selects a part while another one was selected, the other one
\* is without the highlight material.
C1_SelectionExclusive ==
  /\ Cardinality(Highlighted) <= 1
  /\ (last.phase = "selected" /\ last.prev # NULL /\ last.prev # last.part)
       => material[last.prev] # selectedMaterial

C1_Witness ==
  /\ last.phase = "selected"
  /\ last.prev = "seat"
  /\ last.part = "back"
  /\ material["back"] = selectedMaterial

\* C2 as stated: whenever a part is selected, a saved material is held and the
\* part's active material is the highlight material.
C2_SelectedIsHighlighted ==
  target # NULL =>
    /\ tempMaterial # NullMaterial
    /\ material[target] = selectedMaterial

\* C2 amended: whenever a part is selected, a saved material other than the
\* highlight is held, and the part's active material is the highlight
\* material unless a texture was applied to it since the click that selected
\* it; then the active and the saved material are two materials that map
\* that texture.
C2_SelectedIsHighlightedOrTextured ==
  target # NULL =>
    /\ tempMaterial # NullMaterial
    /\ tempMaterial # selectedMaterial
    /\ \/ material[target] = selectedMaterial
       \/ /\ last.phase = "textured"
          /\ last.part = target
          /\ material[target].kind = "phong"
          /\ tempMaterial.kind = "phong"
          /\ tempMaterial.tex = material[target].tex
          /\ tempMaterial.map = material[target].map
          /\ tempMaterial # material[target]

C2_Witness ==
  /\ target = "seat"
  /\ material["seat"].kind = "phong"
  /\ tempMaterial.kind = "phong"

\* C3: whenever no part is selected, no saved material is held.
C3_NoSelectionNoSaved == target = NULL => tempMaterial = NullMaterial

\* C4 as stated: for every part A with active material m, after a click that
\* selects A and a next click on empty space, with no texture applied in
\* between, A's active material is m again, nothing is selected and the
\* second click changed no other mesh's material.
C4_DeselectRestores ==
  last.phase = "deselected" =>
    /\ material[last.part] = last.m
    /\ target = NULL
    /\ \A o \in Meshes \ {last.part} : material[o] = last.before[o]

\* C4 amended: the same, for every part A that is not already the selected
\* part when the first click selects it.
C4_DeselectRestoresFreshSelection ==
  (last.phase = "deselected" /\ last.prev # last.part) =>
    /\ material[last.part] = last.m
    /\ target = NULL
    /\ \A o \in Meshes \ {last.part} : material[o] = last.before[o]

C4_Witness ==
  /\ last.phase = "deselected"
  /\ last.part = "seat"
  /\ last.prev = "back"
  /\ material["seat"] = GltfMaterial(1)

\* C5: a click on the part that is already selected leaves it selected and
\* highlighted, leaves the saved material as it was (never the highlight
\* material) and touches no other mesh; and a click on empty space gives the
\* selected part the saved material.
C5_ReselectIdempotent ==
  [][ /\ (Click /\ target # NULL /\ ClickedPart = target) =>
           /\ target' = target
           /\ material'[target] = selectedMaterial
           /\ tempMaterial' = tempMaterial
           /\ tempMaterial' \notin {selectedMaterial, NullMaterial}
           /\ \A o \in Meshes \ {target} : material'[o] = material[o]
      /\ (Click /\ target # NULL /\ chair # NULL /\ ClickedPart = NULL) =>
           /\ material'[target] = tempMaterial
           /\ tempMaterial \notin {selectedMaterial, NullMaterial}
           /\ target' = NULL
    ]_vars

C5_Witness ==
  /\ last.phase = "selected"
  /\ last.prev = last.part
  /\ last.m = selectedMaterial
  /\ target = last.part
  /\ tempMaterial.kind = "gltf"

\* C6: while no model is present, a click changes neither the selection, the
\* saved material, any material nor the scene, and throws nothing.
C6_NoModelClickIsNoOp ==
  [][ (Click /\ chair = NULL) =>
        /\ UNCHANGED <<target, tempMaterial, material, sceneChildren, shadowed>>
        /\ last'.phase = "noop"
    ]_vars

C6_Witness ==
  /\ last.phase = "noop"
  /\ modelLoad = "rejected"
  /\ chair = NULL

\* C7: after dispose, no completing load sets the model reference, adds the
\* model to the scene, or changes a material or the saved material.
C7_LoadsGuardedAfterDispose ==
  [][ lifecycle = "disposed" =>
        UNCHANGED <<chair, sceneChildren, shadowed, material, tempMaterial>>
    ]_vars

\* C8: a texture load that fails changes no material, not the selection and
\* not the saved material.
C8_TextureFailureChangesNothing ==
  [][ (\E t \in texPending : TextureRejected(t)) =>
        UNCHANGED <<target, tempMaterial, material>>
    ]_vars

C8_Witness ==
  /\ unhandled # {}
  /\ target # NULL
  /\ material[target] = selectedMaterial

\* C9: while the loop runs exactly one frame is requested, the one timer
\* names; every frame that runs requests exactly one next frame; and once
\* dispose was called no frame is left to run.
C9_RenderLoopCancellable ==
  /\ [](lifecycle = "running" => scheduled = {timer})
  /\ [](lifecycle = "disposed" => scheduled = {})
  /\ [][ Frame =>
           /\ lifecycle = "running"
           /\ scheduled' = {timer'}
           /\ timer' \notin scheduled
       ]_vars

C9_Witness ==
  /\ lifecycle = "disposed"
  /\ frames >= 2
  /\ scheduled = {}

\* C10: a texture load that completes acts on the part selected then: every
\* mesh of that part's subtree gets a new material of its own that maps the
\* loaded texture, the saved material becomes another new material that maps
\* it, nothing else changes, and a deselecting click that follows leaves the
\* part with a material that maps the texture; when no part is selected then,
\* no material and no saved material changes.
C10_TextureAppliedToCurrentTarget ==
  [][ /\ \A t \in texPending : TextureResolved(t) =>
           IF target = NULL
           THEN UNCHANGED <<material, tempMaterial, target>>
           ELSE /\ target' = target
                /\ \A o \in Subtree(target) :
                     /\ material'[o].kind = "phong"
                     /\ material'[o].map = t.url
                     /\ material'[o].tex = t.id
                     /\ material'[o] \notin Range(material) \cup {tempMaterial}
                     /\ material'[o] # tempMaterial'
                     /\ \A q \in Subtree(target) \ {o} :
                          material'[q] # material'[o]
                /\ \A o \in Meshes \ Subtree(target) :
                     material'[o] = material[o]
                /\ tempMaterial'.kind = "phong"
                /\ tempMaterial'.map = t.url
                /\ tempMaterial'.tex = t.id
                /\ tempMaterial' \notin Range(material) \cup {tempMaterial}
      /\ (/\ Click
          /\ last.phase = "textured"
          /\ target # NULL
          /\ last.part = target
          /\ ClickedPart = NULL) =>
           /\ material'[target].kind = "phong"
           /\ material'[target].map = material[target].map
           /\ material'[target].tex = material[target].tex
    ]_vars

C10_Witness ==
  /\ last.phase = "textured"
  /\ last.part = "seat"
  /\ last.prev = "back"
  /\ material["seat"].kind = "phong"
  /\ material["cushion"].kind = "phong"
  /\ material["back"].kind = "gltf"
  /\ tempMaterial.kind = "phong"

=============================================================================
